---------------------------- MODULE Spec2Model ----------------------------
(***************************************************************************)
(* The compact encoder of src/compact_llm.rs: to_compact_string converts   *)
(* its argument to a serde_json::Value tree and write_compact_value walks  *)
(* that tree, appending text to the call's output String.                  *)
(*                                                                         *)
(* Text is a sequence of characters, a character a one-character string.   *)
(* A run is one or two callers, each invoking to_compact_string on its     *)
(* argument MaxCalls times; the steps of the callers interleave.           *)
(***************************************************************************)
EXTENDS Integers, Sequences, FiniteSets, TLC

(***************************************************************************)
(* serde_json::Value: one record shape for the six variants, the fields a  *)
(* variant does not use at a fixed default.                                *)
(***************************************************************************)
Null == [t |-> "null", b |-> FALSE, n |-> 0, s |-> <<>>, a |-> <<>>, o |-> <<>>]

Bool(b) == [t |-> "bool", b |-> b, n |-> 0, s |-> <<>>, a |-> <<>>, o |-> <<>>]

Number(n) == [t |-> "number", b |-> FALSE, n |-> n, s |-> <<>>, a |-> <<>>, o |-> <<>>]

String(s) == [t |-> "string", b |-> FALSE, n |-> 0, s |-> s, a |-> <<>>, o |-> <<>>]

Array(arr) == [t |-> "array", b |-> FALSE, n |-> 0, s |-> <<>>, a |-> arr, o |-> <<>>]

\* obj is the sequence of the map's entries [k |-> key, v |-> value] in its
\* iteration order; the keys of one object are distinct.
Object(obj) == [t |-> "object", b |-> FALSE, n |-> 0, s |-> <<>>, a |-> <<>>, o |-> obj]

(***************************************************************************)
(* Bounds and the inputs of a run.                                         *)
(***************************************************************************)
MaxStrLen == 2

MaxLen == 2

MaxCalls == 2

Callers == {"c1", "c2"}

\* Line feed, carriage return, backslash, a letter, the six structural
\* characters and a digit.
Char == {"\n", "\r", "\\", "n", ":", ",", "{", "}", "[", "]", "1"}

SeqsUpTo(S, len) == UNION {[1..k -> S] : k \in 0..len}

Strings == SeqsUpTo(Char, MaxStrLen)

Numbers == {-120, -7, 0, 1, 7, 11, 105}

Scalars ==
    {Null, Bool(TRUE), Bool(FALSE)}
        \cup {Number(n) : n \in Numbers} \cup {String(s) : s \in Strings}

DistinctKeys(obj) ==
    \A i, j \in 1..Len(obj) : i # j => obj[i].k # obj[j].k

ObjectsOver(keys, vals, len) ==
    {Object(obj) : obj \in {p \in SeqsUpTo([k : keys, v : vals], len) : DistinctKeys(p)}}

ArraysOver(vals, len) == {Array(arr) : arr \in SeqsUpTo(vals, len)}

\* The elements of the arrays of scalars.
Elements ==
    {Null, Bool(TRUE), Number(-7), Number(1), String(<<>>), String(<<"1">>),
     String(<<",">>), String(<<"\n">>), String(<<"]">>)}

Keys == {<<"n">>, <<"\r", "\n">>, <<"1", ":">>}

Members == {Null, Bool(FALSE), Number(105), String(<<"\\", "n">>)}

\* The children of the containers of containers.
Nested ==
    {String(<<",">>), Array(<<>>), Array(<<Number(1), String(<<>>)>>), Object(<<>>),
     Object(<<[k |-> <<"\n">>, v |-> Array(<<Null, String(<<"\r">>)>>)]>>)}

Values ==
    Scalars \cup ArraysOver(Elements, MaxLen) \cup ObjectsOver(Keys, Members, MaxLen)
        \cup ArraysOver(Nested, MaxLen)
        \cup ObjectsOver({<<>>, <<"n", "\n">>}, Nested, MaxLen)

\* The values of the runs of two callers.
ConcValues ==
    {Null, Bool(TRUE), Number(1), Number(11), Number(-7), Number(7),
     String(<<"1">>), String(<<"\\">>), String(<<"n">>), Array(<<Number(11)>>),
     Object(<<[k |-> <<"n">>, v |-> String(<<"n">>)]>>),
     Object(<<[k |-> <<"n">>, v |-> Array(<<String(<<"\n">>)>>)]>>)}
        \cup ArraysOver({Number(1)}, MaxLen) \cup ArraysOver({String(<<>>)}, 1)

Errors == {"unsupported type", "key must be a string"}

\* An argument of to_compact_string is known by what serde_json::to_value
\* makes of it: a value tree, or an error.
Convertible(v) == [ok |-> TRUE, val |-> v, err |-> ""]

Unconvertible(e) == [ok |-> FALSE, val |-> Null, err |-> e]

Inputs == {Convertible(v) : v \in Values} \cup {Unconvertible(e) : e \in Errors}

ConcInputs ==
    {Convertible(v) : v \in ConcValues} \cup {Unconvertible("unsupported type")}

(***************************************************************************)
(* The program's state.                                                    *)
(***************************************************************************)
VARIABLES
    callers,  \* the callers of this run
    arg,      \* arg[c]: the argument `value` of c's invocations
    pc,       \* pc[c]: "idle" (not called), "run" (in write_compact_value), "done"
    json,     \* json[c]: json_value
    output,   \* output[b]: the text of buffer b
    stack,    \* stack[c]: the active calls of write_compact_value, innermost last
    result,   \* result[c]: what to_compact_string returned
    visited,  \* visited[c]: the nodes write_compact_value was called on, in call order
    calls,    \* calls[c]: the number of the invocation c is in
    prev      \* prev[c]: what c's previous invocation returned

vars == <<callers, arg, pc, json, output, stack, result, visited, calls, prev>>

NoResult == [kind |-> "none", text |-> <<>>, err |-> ""]

Ok(text) == [kind |-> "ok", text |-> text, err |-> ""]

Err(e) == [kind |-> "err", text |-> <<>>, err |-> e]

(***************************************************************************)
(* The pieces of to_compact_string and write_compact_value.                *)
(***************************************************************************)
\* Mutant: the error is swallowed and an empty string returned.
SwallowErr(e) == Ok(<<>>)

\* `serde_json::to_value(value)?`: the error is returned as it is.
PropagateErr(e) == Err(e)

\* `let mut output = String::new()`: a new, empty buffer, whatever the
\* memory held before.
NewBuffer(old) == <<>>

\* Mutant: one buffer for every call.
SharedBuffer(c) == "c1"

\* The buffer write_compact_value is handed: the call's own `output`.
BufferOf(c) == c

NullLiteral == <<"n", "u", "l", "l">>

\* Mutant: the booleans as 1 and 0.
BoolLiteralNumeric(b) == IF b THEN <<"1">> ELSE <<"0">>

BoolLiteral(b) == IF b THEN <<"t", "r", "u", "e">> ELSE <<"f", "a", "l", "s", "e">>

DigitChars == <<"0", "1", "2", "3", "4", "5", "6", "7", "8", "9">>

RECURSIVE Digits(_)
Digits(n) ==
    IF n < 10 THEN <<DigitChars[n + 1]>>
    ELSE Digits(n \div 10) \o <<DigitChars[(n % 10) + 1]>>

\* Mutant: the sign is lost.
NumberToStringUnsigned(n) == IF n < 0 THEN Digits(-n) ELSE Digits(n)

\* `n.to_string()` of an integer serde_json::Number.
NumberToString(n) == IF n < 0 THEN <<"-">> \o Digits(-n) ELSE Digits(n)

\* str::replace(from, to) for a one-character pattern: left to right, every
\* occurrence.
RECURSIVE Replace(_, _, _)
Replace(s, from, to) ==
    IF s = <<>> THEN <<>>
    ELSE (IF Head(s) = from THEN to ELSE <<Head(s)>>) \o Replace(Tail(s), from, to)

\* Mutant: the second replace is missing.
escaped_lf_only(s) == Replace(s, "\n", <<"\\", "n">>)

\* `s.replace('\n', "\\n").replace('\r', "\\r")`
escaped(s) == Replace(Replace(s, "\n", <<"\\", "n">>), "\r", <<"\\", "r">>)

\* Mutant: the key is written as it is.
raw_key(key) == key

\* `key.replace('\n', "\\n").replace('\r', "\\r")`
escaped_key(key) == Replace(Replace(key, "\n", <<"\\", "n">>), "\r", <<"\\", "r">>)

\* Mutants: a comma before every item, and no comma at all.
ArraySeparatorAlways(i) == <<",">>

ArraySeparatorNever(i) == <<>>

\* `if i > 0 { output.push(',') }` of the array loop; i counts from 0.
ArraySeparator(i) == IF i > 0 THEN <<",">> ELSE <<>>

\* Mutant: a comma before every pair.
ObjectSeparatorAlways(i) == <<",">>

\* `if i > 0 { output.push(',') }` of the object loop.
ObjectSeparator(i) == IF i > 0 THEN <<",">> ELSE <<>>

\* Mutant: the loop skips every second item.
SkipIndex(i) == i + 2

\* The step of `iter().enumerate()`.
NextIndex(i) == i + 1

\* The children of a node, in iteration order.
Children(v) ==
    IF v.t = "array" THEN v.a
    ELSE IF v.t = "object" THEN [i \in 1..Len(v.o) |-> v.o[i].v]
    ELSE <<>>

\* The node of v at a path of child positions.
RECURSIVE NodeAt(_, _)
NodeAt(v, path) ==
    IF path = <<>> THEN v ELSE NodeAt(Children(v)[Head(path)], Tail(path))

\* A call of write_compact_value: the node it is on, whether the opening
\* bracket is written, and how many children the loop has taken.
Frame(path) == [path |-> path, open |-> FALSE, i |-> 0]

Top(c) == stack[c][Len(stack[c])]

Node(c) == NodeAt(json[c], Top(c).path)

Running(c) == c \in callers /\ pc[c] = "run" /\ stack[c] # <<>>

\* output.push_str(text) and, for one character, output.push(ch)
push_str(c, text) == output' = [output EXCEPT ![BufferOf(c)] = @ \o text]

\* write_compact_value returns to its caller.
Return(c) == stack' = [stack EXCEPT ![c] = SubSeq(@, 1, Len(@) - 1)]

\* The loop takes child number f.i + 1 and calls write_compact_value on it.
CallChild(c) ==
    LET f == Top(c)
        child == f.path \o <<f.i + 1>>
    IN  /\ stack' = [stack EXCEPT ![c] =
                        SubSeq(@, 1, Len(@) - 1)
                            \o <<[f EXCEPT !.i = NextIndex(f.i)], Frame(child)>>]
        /\ visited' = [visited EXCEPT ![c] = Append(@, child)]

(***************************************************************************)
(* The initial states: one caller with any input, or two callers with the  *)
(* inputs of ConcInputs.                                                   *)
(***************************************************************************)
Args(first, second) ==
    {[c \in Callers |-> IF c = "c1" THEN x ELSE y] : x \in first, y \in second}

Start ==
    /\ pc = [c \in Callers |-> "idle"]
    /\ json = [c \in Callers |-> Null]
    /\ output = [c \in Callers |-> <<>>]
    /\ stack = [c \in Callers |-> <<>>]
    /\ result = [c \in Callers |-> NoResult]
    /\ visited = [c \in Callers |-> <<>>]
    /\ calls = [c \in Callers |-> 1]
    /\ prev = [c \in Callers |-> NoResult]

InitOne == callers = {"c1"} /\ arg \in Args(Inputs, {Convertible(Null)}) /\ Start

InitTwo == callers = Callers /\ arg \in Args(ConcInputs, ConcInputs) /\ Start

Init == InitOne \/ InitTwo

(***************************************************************************)
(* to_compact_string                                                       *)
(***************************************************************************)
\* Lines 9-13, the conversion succeeds: json_value is the tree, output a
\* new buffer, and write_compact_value is called on the root.
Convert(c) ==
    /\ c \in callers /\ pc[c] = "idle" /\ arg[c].ok
    /\ json' = [json EXCEPT ![c] = arg[c].val]
    /\ output' = [output EXCEPT ![BufferOf(c)] = NewBuffer(@)]
    /\ stack' = [stack EXCEPT ![c] = <<Frame(<<>>)>>]
    /\ visited' = [visited EXCEPT ![c] = <<<<>>>>]
    /\ pc' = [pc EXCEPT ![c] = "run"]
    /\ UNCHANGED <<callers, arg, result, calls, prev>>

\* Line 9, the conversion fails: `?` returns the error at once.
ConvertFails(c) ==
    /\ c \in callers /\ pc[c] = "idle" /\ ~arg[c].ok
    /\ result' = [result EXCEPT ![c] = PropagateErr(arg[c].err)]
    /\ pc' = [pc EXCEPT ![c] = "done"]
    /\ UNCHANGED <<callers, arg, json, output, stack, visited, calls, prev>>

\* Line 15: `Ok(output)`, once write_compact_value has returned.
ReturnOk(c) ==
    /\ c \in callers /\ pc[c] = "run" /\ stack[c] = <<>>
    /\ result' = [result EXCEPT ![c] = Ok(output[BufferOf(c)])]
    /\ pc' = [pc EXCEPT ![c] = "done"]
    /\ UNCHANGED <<callers, arg, json, output, stack, visited, calls, prev>>

\* The caller invokes to_compact_string again, on the same argument.
Again(c) ==
    /\ c \in callers /\ pc[c] = "done" /\ calls[c] < MaxCalls
    /\ prev' = [prev EXCEPT ![c] = result[c]]
    /\ result' = [result EXCEPT ![c] = NoResult]
    /\ calls' = [calls EXCEPT ![c] = @ + 1]
    /\ visited' = [visited EXCEPT ![c] = <<>>]
    /\ pc' = [pc EXCEPT ![c] = "idle"]
    /\ UNCHANGED <<callers, arg, json, output, stack>>

(***************************************************************************)
(* write_compact_value, one arm of the match at a time                     *)
(***************************************************************************)
Scalar(c, text) ==
    /\ push_str(c, text)
    /\ Return(c)
    /\ UNCHANGED <<callers, arg, pc, json, result, visited, calls, prev>>

\* Line 20
WriteNull(c) ==
    /\ Running(c) /\ Node(c).t = "null"
    /\ Scalar(c, NullLiteral)

\* Line 21
WriteBool(c) ==
    /\ Running(c) /\ Node(c).t = "bool"
    /\ Scalar(c, BoolLiteral(Node(c).b))

\* Line 22
WriteNumber(c) ==
    /\ Running(c) /\ Node(c).t = "number"
    /\ Scalar(c, NumberToString(Node(c).n))

\* Lines 23-27
WriteString(c) ==
    /\ Running(c) /\ Node(c).t = "string"
    /\ Scalar(c, escaped(Node(c).s))

\* Lines 29 and 39: the opening bracket is written.
Open(c, bracket) ==
    /\ push_str(c, <<bracket>>)
    /\ stack' = [stack EXCEPT ![c][Len(stack[c])].open = TRUE]
    /\ UNCHANGED <<callers, arg, pc, json, result, visited, calls, prev>>

\* Line 29
ArrayOpen(c) ==
    /\ Running(c) /\ Node(c).t = "array" /\ ~Top(c).open
    /\ Open(c, "[")

\* Lines 30-35: one turn of the loop, up to the call on the item.
ArrayItem(c) ==
    /\ Running(c) /\ Node(c).t = "array" /\ Top(c).open
    /\ Top(c).i < Len(Node(c).a)
    /\ push_str(c, ArraySeparator(Top(c).i))
    /\ CallChild(c)
    /\ UNCHANGED <<callers, arg, pc, json, result, calls, prev>>

\* Lines 36 and 50: the closing bracket is written, and the call returns.
Close(c, bracket) ==
    /\ push_str(c, <<bracket>>)
    /\ Return(c)
    /\ UNCHANGED <<callers, arg, pc, json, result, visited, calls, prev>>

\* Line 36
ArrayClose(c) ==
    /\ Running(c) /\ Node(c).t = "array" /\ Top(c).open
    /\ Top(c).i >= Len(Node(c).a)
    /\ Close(c, "]")

\* Line 39
ObjectOpen(c) ==
    /\ Running(c) /\ Node(c).t = "object" /\ ~Top(c).open
    /\ Open(c, "{")

\* Lines 40-49: one turn of the loop, up to the call on the value.
ObjectEntry(c) ==
    /\ Running(c) /\ Node(c).t = "object" /\ Top(c).open
    /\ Top(c).i < Len(Node(c).o)
    /\ push_str(c, ObjectSeparator(Top(c).i)
                       \o escaped_key(Node(c).o[Top(c).i + 1].k) \o <<":">>)
    /\ CallChild(c)
    /\ UNCHANGED <<callers, arg, pc, json, result, calls, prev>>

\* Line 50
ObjectClose(c) ==
    /\ Running(c) /\ Node(c).t = "object" /\ Top(c).open
    /\ Top(c).i >= Len(Node(c).o)
    /\ Close(c, "}")

Next ==
    \E c \in Callers :
        \/ Convert(c)
        \/ ConvertFails(c)
        \/ ReturnOk(c)
        \/ Again(c)
        \/ WriteNull(c)
        \/ WriteBool(c)
        \/ WriteNumber(c)
        \/ WriteString(c)
        \/ ArrayOpen(c)
        \/ ArrayItem(c)
        \/ ArrayClose(c)
        \/ ObjectOpen(c)
        \/ ObjectEntry(c)
        \/ ObjectClose(c)

Spec == Init /\ [][Next]_vars

\* The runs of one caller, in which a step that can be taken is taken:
\* to_compact_string is synchronous and never blocks or waits.
FairSpec == InitOne /\ [][Next]_vars /\ WF_vars(Next)

(***************************************************************************)
(* The output format, as the contract of the encoder states it, written    *)
(* without the operators above.                                            *)
(***************************************************************************)
Done(c) == c \in callers /\ pc[c] = "done"

\* c's invocation returned Ok; Text(c) is the string it returned.
Encoded(c) == Done(c) /\ result[c].kind = "ok"

Text(c) == result[c].text

RECURSIVE Concat(_)
Concat(texts) == IF texts = <<>> THEN <<>> ELSE Head(texts) \o Concat(Tail(texts))

\* The texts, with one comma between two neighbours.
RECURSIVE JoinComma(_)
JoinComma(texts) ==
    IF Len(texts) <= 1 THEN Concat(texts)
    ELSE Head(texts) \o <<",">> \o JoinComma(Tail(texts))

IsPrefix(p, text) == Len(p) <= Len(text) /\ SubSeq(text, 1, Len(p)) = p

Contains(text, part) ==
    \E i \in 0..(Len(text) - Len(part)) : SubSeq(text, i + 1, i + Len(part)) = part

EscapedChar(ch) ==
    IF ch = "\n" THEN <<"\\", "n">> ELSE IF ch = "\r" THEN <<"\\", "r">> ELSE <<ch>>

\* s, each of its characters escaped or kept, in order.
EscapedText(s) == Concat([i \in 1..Len(s) |-> EscapedChar(s[i])])

DigitOf(d) ==
    CASE d = 0 -> "0" [] d = 1 -> "1" [] d = 2 -> "2" [] d = 3 -> "3" [] d = 4 -> "4"
      [] d = 5 -> "5" [] d = 6 -> "6" [] d = 7 -> "7" [] d = 8 -> "8" [] d = 9 -> "9"

\* The decimal digits of n >= 0, by place value, most significant first.
DecimalDigits(n) ==
    LET d == CHOOSE k \in 1..19 : n < 10 ^ k /\ (k > 1 => 10 ^ (k - 1) <= n)
    IN  [k \in 1..d |-> DigitOf((n \div (10 ^ (d - k))) % 10)]

SignedDecimal(n) == IF n < 0 THEN <<"-">> \o DecimalDigits(-n) ELSE DecimalDigits(n)

RECURSIVE Encoding(_)
Encoding(v) ==
    CASE v.t = "null" -> <<"n", "u", "l", "l">>
      [] v.t = "bool" ->
            IF v.b THEN <<"t", "r", "u", "e">> ELSE <<"f", "a", "l", "s", "e">>
      [] v.t = "number" -> SignedDecimal(v.n)
      [] v.t = "string" -> EscapedText(v.s)
      [] v.t = "array" ->
            <<"[">> \o JoinComma([i \in 1..Len(v.a) |-> Encoding(v.a[i])]) \o <<"]">>
      [] v.t = "object" ->
            <<"{">>
                \o JoinComma([i \in 1..Len(v.o) |->
                        EscapedText(v.o[i].k) \o <<":">> \o Encoding(v.o[i].v)])
                \o <<"}">>

\* The paths of the nodes of v, in depth-first document order: a node, then
\* its children's subtrees from the first to the last.
RECURSIVE Preorder(_, _)
Preorder(v, path) ==
    <<path>>
        \o Concat([i \in 1..Len(Children(v)) |->
                      Preorder(Children(v)[i], path \o <<i>>)])

Nodes(v) == {NodeAt(v, Preorder(v, <<>>)[i]) : i \in 1..Len(Preorder(v, <<>>))}

Depth(v) ==
    LET paths == Preorder(v, <<>>)
    IN  CHOOSE d \in 0..Len(paths) :
            /\ \E i \in 1..Len(paths) : Len(paths[i]) = d
            /\ \A i \in 1..Len(paths) : Len(paths[i]) <= d

Structural == {"{", "}", "[", "]", ",", ":"}

\* The string content of v: its string values and its object keys, at any depth.
StringValues(v) == {n.s : n \in {m \in Nodes(v) : m.t = "string"}}

KeysOf(v) == UNION {{n.o[i].k : i \in 1..Len(n.o)} : n \in Nodes(v)}

CharsOf(strs) == UNION {{s[i] : i \in 1..Len(s)} : s \in strs}

\* C1. A string value is returned with each line feed as backslash, n, each
\* carriage return as backslash, r, and every other character as it is, in
\* order, with nothing around it.
C1_StringEscaping ==
    \A c \in Callers :
        Encoded(c) /\ json[c].t = "string" => Text(c) = EscapedText(json[c].s)

C1_Witness ==
    \E c \in Callers :
        /\ Encoded(c)
        /\ json[c] = String(<<"\r", "\n">>)
        /\ Text(c) = <<"\\", "r", "\\", "n">>

\* C2. An object is returned as "{", its pairs in iteration order as
\* escaped key, colon, encoding of the value, with one comma between two
\* pairs, then "}"; the empty object as "{}"; so the text starts with "{",
\* ends with "}" and contains key ":" value for every pair.
C2_ObjectEncoding ==
    \A c \in Callers :
        Encoded(c) /\ json[c].t = "object" =>
            LET obj == json[c].o
                pair(i) == EscapedText(obj[i].k) \o <<":">> \o Encoding(obj[i].v)
            IN  /\ Text(c) = <<"{">> \o JoinComma([i \in 1..Len(obj) |-> pair(i)]) \o <<"}">>
                /\ obj = <<>> => Text(c) = <<"{", "}">>
                /\ Head(Text(c)) = "{" /\ Text(c)[Len(Text(c))] = "}"
                /\ \A i \in 1..Len(obj) : Contains(Text(c), pair(i))

C2_Witness ==
    \E c \in Callers :
        /\ Encoded(c)
        /\ json[c].t = "object" /\ Len(json[c].o) = 2
        /\ json[c].o[1].k = <<"\r", "\n">>
        /\ json[c].o[2].v.t = "string"

ArrayRule(arr) ==
    <<"[">> \o JoinComma([i \in 1..Len(arr) |-> Encoding(arr[i])]) \o <<"]">>

\* C3. An array is returned as "[", the encodings of its elements in order
\* with one comma between two neighbours, then "]"; the empty array as
\* "[]"; an array inside an array or an object is written by the same rule.
C3_ArrayEncoding ==
    \A c \in Callers :
        Encoded(c) =>
            /\ json[c].t = "array" =>
                /\ Text(c) = ArrayRule(json[c].a)
                /\ json[c].a = <<>> => Text(c) = <<"[", "]">>
            /\ \A n \in Nodes(json[c]) : n.t = "array" => Contains(Text(c), ArrayRule(n.a))

C3_Witness ==
    \E c \in Callers :
        /\ Encoded(c)
        /\ json[c] = Array(<<Array(<<Number(1), String(<<>>)>>), Array(<<>>)>>)
        /\ Text(c) = <<"[", "[", "1", ",", "]", ",", "[", "]", "]">>

\* The line breaks and the structural characters.
Unsafe == {"\n", "\r"} \cup Structural

\* No line break and no structural character in the string content of v.
Safe(v) == CharsOf(StringValues(v) \cup KeysOf(v)) \cap Unsafe = {}

IsIntegerLiteral(s) ==
    LET digits == IF s # <<>> /\ Head(s) = "-" THEN Tail(s) ELSE s
    IN  /\ digits # <<>>
        /\ \A i \in 1..Len(digits) : digits[i] \in {DigitOf(d) : d \in 0..9}

\* s is empty or reads as null, true, false or a number.
LiteralLike(s) ==
    \/ s = <<>>
    \/ s \in {<<"n", "u", "l", "l">>, <<"t", "r", "u", "e">>, <<"f", "a", "l", "s", "e">>}
    \/ IsIntegerLiteral(s)

StrictSafe(v) == Safe(v) /\ \A s \in StringValues(v) : ~LiteralLike(s)

\* C4, as claimed. Two different values without line breaks and structural
\* characters in their string content never have the same encoding.
C4_SafeInjective ==
    \A c, d \in Callers :
        /\ Encoded(c) /\ Encoded(d)
        /\ Safe(json[c]) /\ Safe(json[d])
        /\ json[c] # json[d]
        => Text(c) # Text(d)

\* C4, amended. Two different values without line breaks and structural
\* characters in their string content, and without a string value that is
\* empty or reads as null, true, false or a number, never have the same
\* encoding.
C4_StrictSafeInjective ==
    \A c, d \in Callers :
        /\ Encoded(c) /\ Encoded(d)
        /\ StrictSafe(json[c]) /\ StrictSafe(json[d])
        /\ json[c] # json[d]
        => Text(c) # Text(d)

C4_Witness ==
    /\ Encoded("c1") /\ Encoded("c2")
    /\ json["c1"] = Array(<<Number(1), Number(1)>>)
    /\ json["c2"] = Array(<<Number(11)>>)
    /\ Text("c1") = <<"[", "1", ",", "1", "]">>
    /\ Text("c2") = <<"[", "1", "1", "]">>

\* The commas of text that are inside one bracket only; depth is the
\* number of brackets open before text.
RECURSIVE CommasAtTop(_, _)
CommasAtTop(text, depth) ==
    IF text = <<>> THEN 0
    ELSE IF Head(text) \in {"[", "{"} THEN CommasAtTop(Tail(text), depth + 1)
    ELSE IF Head(text) \in {"]", "}"} THEN CommasAtTop(Tail(text), depth - 1)
    ELSE (IF Head(text) = "," /\ depth = 1 THEN 1 ELSE 0) + CommasAtTop(Tail(text), depth)

TrailingComma(text) == Len(text) >= 2 /\ text[Len(text) - 1] = ","

\* C5, as claimed. The text of an array of n elements has n - 1 commas at
\* the top level between its brackets, and no comma before the closing
\* bracket.
C5_TopLevelCommas ==
    \A c \in Callers :
        Encoded(c) /\ json[c].t = "array" =>
            /\ CommasAtTop(Text(c), 0) = Len(json[c].a) - 1
            /\ ~TrailingComma(Text(c))

\* C5, amended. The text of an array of n elements with no structural
\* character in its string content has n - 1 commas at the top level
\* between its brackets when n >= 1 and none when n = 0, and a comma before
\* the closing bracket only when the last element is the empty string.
C5_TopLevelCommasAmended ==
    \A c \in Callers :
        /\ Encoded(c) /\ json[c].t = "array"
        /\ CharsOf(StringValues(json[c]) \cup KeysOf(json[c])) \cap Structural = {}
        => LET n == Len(json[c].a)
           IN  /\ n >= 1 => CommasAtTop(Text(c), 0) = n - 1
               /\ n = 0 => CommasAtTop(Text(c), 0) = 0
               /\ TrailingComma(Text(c)) => n >= 1 /\ json[c].a[n] = String(<<>>)

C5_Witness ==
    \E c \in Callers :
        /\ Encoded(c)
        /\ json[c] = Array(<<Array(<<Number(1), String(<<>>)>>),
                             Array(<<Number(1), String(<<>>)>>)>>)
        /\ CommasAtTop(Text(c), 0) = 1

\* C6. A failed conversion returns the conversion's error, and no text is
\* made: no buffer is written and write_compact_value is not called. A
\* conversion that succeeds ends in Ok.
C6_ErrorPropagation ==
    \A c \in callers :
        /\ ~arg[c].ok =>
            /\ pc[c] # "run" /\ stack[c] = <<>> /\ visited[c] = <<>>
            /\ output[c] = <<>>
            /\ Done(c) => result[c] = Err(arg[c].err)
        /\ arg[c].ok /\ Done(c) => result[c].kind = "ok"

C6_Witness ==
    \E c \in Callers :
        /\ Done(c) /\ ~arg[c].ok /\ calls[c] = 2
        /\ result[c] = Err("key must be a string")

ScalarLeaf(v) == v.t \in {"null", "bool", "number"}

Literal(v) ==
    CASE v = Null -> <<"n", "u", "l", "l">>
      [] v = Bool(TRUE) -> <<"t", "r", "u", "e">>
      [] v = Bool(FALSE) -> <<"f", "a", "l", "s", "e">>
      [] v.t = "number" -> SignedDecimal(v.n)

\* C7, as claimed. Null, true, false and an integer are returned as the
\* bare literal, the integer in decimal digits with "-" before a negative
\* one; as the value of key k the literal is in the text as k ":" literal.
C7_ScalarLiterals ==
    \A c \in Callers :
        Encoded(c) =>
            /\ ScalarLeaf(json[c]) => Text(c) = Literal(json[c])
            /\ json[c].t = "object" =>
                \A i \in 1..Len(json[c].o) :
                    ScalarLeaf(json[c].o[i].v) =>
                        Contains(Text(c), json[c].o[i].k \o <<":">> \o Literal(json[c].o[i].v))

\* C7, amended. Null, true, false and an integer are returned as the bare
\* literal, the integer in decimal digits with "-" before a negative one;
\* as the value of key k the literal is in the text as the escaped key (its
\* line feeds and carriage returns escaped as for a string), ":", literal.
C7_ScalarLiteralsEscapedKey ==
    \A c \in Callers :
        Encoded(c) =>
            /\ ScalarLeaf(json[c]) => Text(c) = Literal(json[c])
            /\ json[c].t = "object" =>
                \A i \in 1..Len(json[c].o) :
                    ScalarLeaf(json[c].o[i].v) =>
                        Contains(Text(c),
                                 EscapedText(json[c].o[i].k) \o <<":">> \o Literal(json[c].o[i].v))

C7_Witness ==
    \E c \in Callers :
        /\ Encoded(c)
        /\ json[c] = Object(<<[k |-> <<"\r", "\n">>, v |-> Bool(FALSE)],
                              [k |-> <<"n">>, v |-> Number(105)]>>)
        /\ Contains(Text(c), <<"\\", "r", "\\", "n", ":", "f", "a", "l", "s", "e">>)
        /\ Contains(Text(c), <<"n", ":", "1", "0", "5">>)

\* What a step leaves alone: the arguments, the tree of a running call, and
\* the buffer and the call of every caller but the one that takes the step.
StepIsolated ==
    /\ arg' = arg
    /\ \A c \in Callers : pc[c] = "run" /\ pc'[c] = "run" => json'[c] = json[c]
    /\ \A c \in Callers :
        output'[c] # output[c] =>
            \A d \in Callers \ {c} :
                <<pc[d], stack[d], result[d], visited[d]>>'
                    = <<pc[d], stack[d], result[d], visited[d]>>

\* C8. Whatever the interleaving, an invocation returns what its argument
\* alone determines, two invocations on the same argument return the same,
\* a later invocation returns what the earlier one did, a step writes only
\* to the buffer of the invocation that takes it, and no step changes an
\* argument or the tree of a running call.
C8_Independent ==
    /\ [](\A c \in callers :
            Done(c) =>
                /\ arg[c].ok => result[c] = Ok(Encoding(arg[c].val))
                /\ calls[c] > 1 => result[c] = prev[c]
                /\ \A d \in callers : Done(d) /\ arg[d] = arg[c] => result[d] = result[c])
    /\ [][StepIsolated]_vars

C8_Witness ==
    /\ callers = Callers
    /\ arg["c1"] # arg["c2"]
    /\ Encoded("c1") /\ calls["c1"] = 2 /\ Len(Text("c1")) > 2
    /\ pc["c2"] = "run" /\ Len(stack["c2"]) = 2 /\ Len(output["c2"]) > 2

\* C9. The traversal of a value ends, having called write_compact_value on
\* every node once, in depth-first document order; while it runs the calls
\* made so far are the first nodes of that order, the buffer only grows at
\* its end, and its text is a prefix of the text returned.
C9_Traversal ==
    /\ [](\A c \in callers :
            /\ pc[c] = "run" =>
                /\ IsPrefix(visited[c], Preorder(json[c], <<>>))
                /\ IsPrefix(output[c], Encoding(json[c]))
            /\ Encoded(c) =>
                /\ visited[c] = Preorder(json[c], <<>>)
                /\ IsPrefix(output[c], Text(c)))
    /\ [][\A c \in Callers :
            pc[c] = "run" => IsPrefix(output[c], output'[c])]_vars
    /\ \A c \in Callers : (pc[c] = "run") ~> (pc[c] = "done")

C9_Witness ==
    \E c \in Callers :
        /\ Encoded(c)
        /\ Depth(json[c]) = 3
        /\ Len(visited[c]) = 6
        /\ visited[c][5] = <<2, 1, 1>>

\* C10. There is no line feed and no carriage return in any buffer or in any
\* returned text, whatever the value and wherever it holds such characters.
C10_SingleLine ==
    \A c \in Callers :
        /\ \A i \in 1..Len(output[c]) : output[c][i] \notin {"\n", "\r"}
        /\ \A i \in 1..Len(Text(c)) : Text(c)[i] \notin {"\n", "\r"}

C10_Witness ==
    \E c \in Callers :
        /\ Encoded(c)
        /\ "\n" \in CharsOf(KeysOf(json[c]))
        /\ "\r" \in CharsOf(StringValues(json[c]))
        /\ Depth(json[c]) = 3
=============================================================================
